---- MODULE Spec2Model ----
(***************************************************************************)
(* Parts catalog served from a remote folder tree (Google Drive).          *)
(*                                                                         *)
(* Three list handlers exist in the repository:                            *)
(*   "session"  src/unnamed/part_001  session/OAuth server, with upload    *)
(*              and delete endpoints                                       *)
(*   "find"     src/server.js         service-account server, list only    *)
(*   "inline"   src/unnamed/part_000  service-account server, list only    *)
(* Every remote call (files.list / files.get / files.create /              *)
(* files.update) is one atomic step that either succeeds or is rejected.   *)
(***************************************************************************)
EXTENDS Integers, Sequences, FiniteSets, TLC

VARIABLES store, tokens, list, upl, del, deletedOK, writes

vars == <<store, tokens, list, upl, del, deletedOK, writes>>

(***************************************************************************)
(* Bounds of the model.                                                    *)
(***************************************************************************)
MaxChildren == 2
MaxExtraFolders == 2
MaxWrites == 2

(***************************************************************************)
(* Strings are sequences of one-character strings, so that toLowerCase,    *)
(* includes, startsWith and endsWith are computed.                         *)
(***************************************************************************)
UpperChars == <<"A","B","C","D","E","F","G","H","I","J","K","L","M",
                "N","O","P","Q","R","S","T","U","V","W","X","Y","Z">>
LowerChars == <<"a","b","c","d","e","f","g","h","i","j","k","l","m",
                "n","o","p","q","r","s","t","u","v","w","x","y","z">>

LowerChar(c) ==
  IF \E k \in 1..26 : UpperChars[k] = c
  THEN LowerChars[CHOOSE k \in 1..26 : UpperChars[k] = c]
  ELSE c

ToLowerCase(s) == [k \in 1..Len(s) |-> LowerChar(s[k])]

StartsWith(s, p) == Len(s) >= Len(p) /\ SubSeq(s, 1, Len(p)) = p

EndsWith(s, p) == Len(s) >= Len(p) /\ SubSeq(s, Len(s) - Len(p) + 1, Len(s)) = p

Includes(s, p) ==
  \E k \in 0..(Len(s) - Len(p)) : SubSeq(s, k + 1, k + Len(p)) = p

Take(s, n) == IF Len(s) <= n THEN s ELSE SubSeq(s, 1, n)

ImagePrefix == <<"i","m","a","g","e","/">>
DetailsWord == <<"d","e","t","a","i","l","s">>
TxtSuffix   == <<".","t","x","t">>
MimePng     == <<"i","m","a","g","e","/","p","n","g">>
MimeJpeg    == <<"i","m","a","g","e","/","j","p","e","g">>
MimeText    == <<"t","e","x","t","/","p","l","a","i","n">>
MimePdf     == <<"a","p","p","l","i","c","a","t","i","o","n","/","p","d","f">>
MimeFolder  ==
  <<"a","p","p","l","i","c","a","t","i","o","n","/","v","n",
   "d",".","g","o","o","g","l","e","-","a","p",
   "p","s",".","f","o","l","d","e","r">>
NameDetailsTxt == <<"d","e","t","a","i","l","s",".","t","x","t">>
NameDetailsPng == <<"d","e","t","a","i","l","s",".","p","n","g">>
NameMyDetails  == <<"M","y","D","E","T","A","I","L","S">>
NameNotesTxt   == <<"n","o","t","e","s",".","t","x","t">>
NamePicPng     == <<"p","i","c",".","p","n","g">>
NameManualPdf  == <<"m","a","n",".","p","d","f">>
NameAlt        == <<"A","l","t">>
NameBlank      == <<" ">>
NameRoot       == <<"C","A","R","P","A","R","T","S">>

(***************************************************************************)
(* The remote store: a sequence of entities in remote listing order.       *)
(* An entity is [id, parent, name, mimeType, content, trashed]; parent 0   *)
(* is "no parent".  Ids are never reused: a new entity gets Len(store)+1.  *)
(***************************************************************************)
RootId == 1
NoId == 0

Entity(id, parent, name, mimeType, content, trashed) ==
  [id |-> id, parent |-> parent, name |-> name, mimeType |-> mimeType,
   content |-> content, trashed |-> trashed]

RootEntity == Entity(RootId, NoId, NameRoot, MimeFolder, "", FALSE)

Ids(s) == {s[k].id : k \in 1..Len(s)}

EntityOf(s, id) == s[CHOOSE k \in 1..Len(s) : s[k].id = id]

\* Drive reports an entity as trashed when it, or a folder above it, is in
\* the trash.
RECURSIVE IsTrashed(_, _)
IsTrashed(s, id) ==
  IF id \notin Ids(s) THEN FALSE
  ELSE LET e == EntityOf(s, id) IN e.trashed \/ IsTrashed(s, e.parent)

File(e) == [id |-> e.id, name |-> e.name, mimeType |-> e.mimeType]

NoFile == [id |-> NoId, name |-> <<>>, mimeType |-> <<>>]

Project(s) == [k \in 1..Len(s) |-> File(s[k])]

\* files.list with q = "'<parent>' in parents [and mimeType = folder]
\* [and trashed = false]", one page of at most pageSize entries.
DriveList(s, parent, onlyFolders, notTrashed, pageSize) ==
  LET Match(e) == /\ e.parent = parent
                  /\ (onlyFolders => e.mimeType = MimeFolder)
                  /\ (notTrashed => ~IsTrashed(s, e.id))
  IN Take(Project(SelectSeq(s, Match)), pageSize)

FolderPageSize == 1000
ChildPageSize == 50
DefaultPageSize == 100

\* files.get with alt=media: the body of the file.  The client hands a
\* text/plain body over as a string; for any other content type the data may
\* or may not be a string.
DriveGetData(s, fileId, asString) ==
  LET e == EntityOf(s, fileId)
  IN [isString |-> (e.mimeType = MimeText \/ asString), val |-> e.content]

\* files.create: the new entity is appended with a fresh id.
DriveCreate(s, parent, name, mimeType, content) ==
  Append(s, Entity(Len(s) + 1, parent, name, mimeType, content, FALSE))

\* A faulty DriveTrash: the trashed flag is toggled instead of set.
DriveTrashToggle(s, fileId) ==
  [k \in 1..Len(s) |->
     IF s[k].id = fileId THEN [s[k] EXCEPT !.trashed = ~@] ELSE s[k]]

\* files.update with requestBody {trashed: true}.
DriveTrash(s, fileId) ==
  [k \in 1..Len(s) |->
     IF s[k].id = fileId THEN [s[k] EXCEPT !.trashed = TRUE] ELSE s[k]]

(***************************************************************************)
(* GET /api/parts: classification of the children of one part folder.      *)
(***************************************************************************)
UcBase == "https://drive.google.com/uc?id="
UcViewBase == "https://drive.google.com/uc?export=view&id="

Url(base, id) == <<base, id>>
NullUrl == <<>>          \* null
EmptyUrl == <<"">>       \* ''

\* A faulty Classify: the text/plain fallback lacks its !detailsFile guard.
RECURSIVE ClassifyNoGuard(_, _, _)
ClassifyNoGuard(files, imageFile, detailsFile) ==
  IF files = <<>>
  THEN [imageFile |-> imageFile, detailsFile |-> detailsFile]
  ELSE LET file == Head(files) IN
    IF file.mimeType # <<>> /\ StartsWith(file.mimeType, ImagePrefix)
    THEN ClassifyNoGuard(Tail(files), file, detailsFile)
    ELSE IF file.name # <<>> /\ Includes(ToLowerCase(file.name), DetailsWord)
    THEN ClassifyNoGuard(Tail(files), imageFile, file)
    ELSE IF file.mimeType = MimeText
    THEN ClassifyNoGuard(Tail(files), imageFile, file)
    ELSE ClassifyNoGuard(Tail(files), imageFile, detailsFile)

\* part_001, the for-loop over filesRes.data.files with its else-if chain.
RECURSIVE Classify(_, _, _)
Classify(files, imageFile, detailsFile) ==
  IF files = <<>>
  THEN [imageFile |-> imageFile, detailsFile |-> detailsFile]
  ELSE LET file == Head(files) IN
    IF file.mimeType # <<>> /\ StartsWith(file.mimeType, ImagePrefix)
    THEN Classify(Tail(files), file, detailsFile)
    ELSE IF file.name # <<>> /\ Includes(ToLowerCase(file.name), DetailsWord)
    THEN Classify(Tail(files), imageFile, file)
    ELSE IF file.mimeType = MimeText /\ detailsFile = NoFile
    THEN Classify(Tail(files), imageFile, file)
    ELSE Classify(Tail(files), imageFile, detailsFile)

\* Array.prototype.find: the first element whose index is among hits (the
\* indices of the elements that pass the test), or none.
Find(files, hits) ==
  IF hits = {} THEN NoFile
  ELSE files[CHOOSE k \in hits : \A m \in hits : k <= m]

\* server.js, the two find calls.
ClassifyFind(files) ==
  LET K == 1..Len(files)
      images == {k \in K : StartsWith(files[k].mimeType, ImagePrefix)}
      txts == {k \in K : EndsWith(files[k].name, TxtSuffix)}
  IN [imageFile |-> Find(files, images), detailsFile |-> Find(files, txts)]

\* part_000, the for-loop over the children from index j on, up to the next
\* await: j is the index of the text/plain file whose content is fetched
\* next, or 0 when the loop is over.
RECURSIVE ScanInline(_, _, _)
ScanInline(files, j, imageUrl) ==
  IF j > Len(files) THEN [j |-> 0, imageUrl |-> imageUrl]
  ELSE IF StartsWith(files[j].mimeType, ImagePrefix)
  THEN ScanInline(files, j + 1, Url(UcBase, files[j].id))
  ELSE IF files[j].mimeType = MimeText
  THEN [j |-> j, imageUrl |-> imageUrl]
  ELSE ScanInline(files, j + 1, imageUrl)

\* part_001: typeof txt.data === 'string' ? txt.data : JSON.stringify(txt.data)
\* (a body that is not a string serialises to some JSON text).
JsonText == "{}"
DetailsText(data) == IF data.isString THEN data.val ELSE JsonText

(***************************************************************************)
(* GET /api/parts: the request.                                            *)
(***************************************************************************)
Variants == {"session", "find", "inline"}

\* One client issues the requests, one at a time: a request starts when no
\* other is in flight; writes counts the upload and delete requests that
\* reached the remote store.  The outcome of a list or delete request is kept until
\* the next request starts, that of an upload until the next upload.
ListOver == list.pc \in {"idle", "done", "rejected"}
UploadOver == upl.pc \in {"idle", "done"}
DeleteOver == del.pc \in {"idle", "done"}
NoRequest == ListOver /\ UploadOver /\ DeleteOver

IdleList ==
  [pc |-> "idle", variant |-> "session", folders |-> <<>>, i |-> 0,
   files |-> <<>>, j |-> 0, imageUrl |-> NullUrl, detailsFile |-> NoFile,
   detailsText |-> "", parts |-> <<>>, status |-> 0, body |-> <<>>,
   error |-> "", calls |-> <<>>, failed |-> <<>>, delBefore |-> {},
   snaps |-> {}]

NoUpload == [present |-> FALSE, originalname |-> <<>>, mimetype |-> <<>>,
             buffer |-> ""]

IdleUpload ==
  [pc |-> "idle", partName |-> <<>>, file |-> NoUpload, details |-> "",
   folderId |-> NoId, written |-> <<>>, status |-> 0, error |-> "",
   calls |-> <<>>]

IdleDelete ==
  [pc |-> "idle", folderId |-> NoId, status |-> 0, error |-> "",
   calls |-> <<>>, delBefore |-> {}]

Call(op, target) == <<op, target>>

\* A faulty PartRecord: the folder of the first iteration is used throughout.
PartRecordFirst(l, imageUrl, detailsText) ==
  LET f == l.folders[1] IN
  [id |-> f.id, name |-> f.name, imageUrl |-> imageUrl,
   details |-> detailsText]

\* The record pushed for the folder being processed.
PartRecord(l, imageUrl, detailsText) ==
  LET f == l.folders[l.i] IN
  CASE l.variant = "session" ->
         [id |-> f.id, name |-> f.name, imageUrl |-> imageUrl,
          details |-> detailsText]
    [] l.variant = "find" ->
         [name |-> f.name, imageUrl |-> imageUrl, details |-> detailsText]
    [] l.variant = "inline" ->
         [name |-> f.name, image |-> imageUrl, details |-> detailsText]

\* A faulty PushPart: the record is put in front (unshift instead of push).
PushPartFront(l, rec) ==
  LET parts == <<rec>> \o l.parts
      c == [l EXCEPT !.parts = parts]
  IN IF l.i < Len(l.folders)
     THEN [c EXCEPT !.i = l.i + 1, !.pc = "children"]
     ELSE [c EXCEPT !.pc = "done", !.status = 200, !.body = parts]

\* parts.push(...) and the next iteration of the folder loop, or res.json(parts).
\* (files, imageUrl and detailsFile keep the values of the last iteration
\* until the next child listing replaces them.)
PushPart(l, rec) ==
  LET parts == Append(l.parts, rec)
      c == [l EXCEPT !.parts = parts]
  IN IF l.i < Len(l.folders)
     THEN [c EXCEPT !.i = l.i + 1, !.pc = "children"]
     ELSE [c EXCEPT !.pc = "done", !.status = 200, !.body = parts]

\* A faulty ListFail: a rejected call is swallowed and the records gathered
\* so far are returned.
ListFailLenient(l, call) ==
  [l EXCEPT !.calls = Append(l.calls, call), !.failed = call, !.pc = "done",
            !.status = 200, !.body = l.parts]

\* A faulty ListFail: the 500 answer carries the records gathered so far.
ListFailPartial(l, call) ==
  [l EXCEPT !.calls = Append(l.calls, call), !.failed = call, !.pc = "done",
            !.status = 500, !.error = "Failed to list parts",
            !.body = l.parts]

\* A rejected remote call: the catch block answers 500 (part_001, server.js);
\* part_000 has no catch, the rejection of listParts() is unhandled and the
\* request is never answered.
ListFail(l, call) ==
  LET c == [l EXCEPT !.calls = Append(l.calls, call), !.failed = call] IN
  IF l.variant = "inline"
  THEN [c EXCEPT !.pc = "rejected", !.error = "unhandled rejection"]
  ELSE [c EXCEPT !.pc = "done", !.status = 500,
                 !.error = "Failed to list parts"]

\* A faulty NotTrashedFilter: no query says "trashed = false".
NotTrashedFilterOff(v) == FALSE

\* Whether the queries of a variant say "trashed = false".
NotTrashedFilter(v) == v # "inline"

FolderPage(v) == IF v = "session" THEN FolderPageSize ELSE DefaultPageSize
ChildPage(v) == IF v = "session" THEN ChildPageSize ELSE DefaultPageSize


\* The contents the remote store has had while a list request is in flight
\* (from the entry of the handler to its answer): l.snaps gains the content
\* s that a write of another request leaves.
ListInFlight(l) == l.pc \in {"enum", "children", "get"}
Observe(l, s) == IF ListInFlight(l) THEN [l EXCEPT !.snaps = @ \cup {s}] ELSE l

\* A faulty ListBegin: the route is registered without ensureAuth.
ListBeginNoAuth(v) ==
  [IdleList EXCEPT !.variant = v, !.pc = "enum", !.delBefore = deletedOK,
                        !.snaps = {store}]

\* ensureAuth (part_001 only), then the handler up to its first await.
ListBegin(v) ==
  IF v = "session" /\ ~tokens
  THEN [IdleList EXCEPT !.variant = v, !.pc = "done", !.status = 401,
                        !.error = "Not authenticated"]
  ELSE [IdleList EXCEPT !.variant = v, !.pc = "enum", !.delBefore = deletedOK,
                        !.snaps = {store}]

ListStart(v) ==
  /\ NoRequest
  /\ list' = ListBegin(v)
  /\ del' = IdleDelete
  /\ UNCHANGED <<store, tokens, upl, deletedOK, writes>>

ListEnumerate ==
  /\ list.pc = "enum"
  /\ \E ok \in BOOLEAN :
       LET call == Call("list", RootId)
           folders == DriveList(store, RootId, TRUE,
                                NotTrashedFilter(list.variant),
                                FolderPage(list.variant))
           c == [list EXCEPT !.calls = Append(list.calls, call),
                             !.folders = folders]
       IN list' = IF ~ok THEN ListFail(list, call)
                  ELSE IF folders = <<>>
                  THEN [c EXCEPT !.pc = "done", !.status = 200, !.body = <<>>]
                  ELSE [c EXCEPT !.pc = "children", !.i = 1]
  /\ UNCHANGED <<store, tokens, upl, del, deletedOK, writes>>

ListChildren ==
  /\ list.pc = "children"
  /\ \E ok \in BOOLEAN :
       LET fid == list.folders[list.i].id
           call == Call("list", fid)
           files == DriveList(store, fid, FALSE,
                              NotTrashedFilter(list.variant),
                              ChildPage(list.variant))
           c == [list EXCEPT !.calls = Append(list.calls, call),
                             !.files = files]
           cls == IF list.variant = "session"
                  THEN Classify(files, NoFile, NoFile)
                  ELSE ClassifyFind(files)
           base == IF list.variant = "session" THEN UcBase ELSE UcViewBase
           imageUrl == IF cls.imageFile # NoFile
                       THEN Url(base, cls.imageFile.id) ELSE NullUrl
           scan == ScanInline(files, 1, EmptyUrl)
       IN list' =
            IF ~ok THEN ListFail(list, call)
            ELSE IF list.variant = "inline"
            THEN IF scan.j = 0
                 THEN PushPart([c EXCEPT !.imageUrl = scan.imageUrl,
                                         !.detailsFile = NoFile, !.j = 0],
                               PartRecord(c, scan.imageUrl, ""))
                 ELSE [c EXCEPT !.pc = "get", !.j = scan.j,
                                !.imageUrl = scan.imageUrl,
                                !.detailsFile = files[scan.j]]
            ELSE LET d == [c EXCEPT !.imageUrl = imageUrl,
                                    !.detailsFile = cls.detailsFile]
                 IN IF cls.detailsFile = NoFile
                    THEN PushPart(d, PartRecord(d, imageUrl, ""))
                    ELSE [d EXCEPT !.pc = "get"]
  /\ UNCHANGED <<store, tokens, upl, del, deletedOK, writes>>

ListGet ==
  /\ list.pc = "get"
  /\ \E ok \in BOOLEAN, asString \in BOOLEAN :
       LET call == Call("get", list.detailsFile.id)
           c == [list EXCEPT !.calls = Append(list.calls, call)]
           data == DriveGetData(store, list.detailsFile.id,
                                asString \/ list.variant = "find")
           text == IF list.variant = "session" THEN DetailsText(data)
                   ELSE data.val
           scan == ScanInline(list.files, list.j + 1, list.imageUrl)
       IN list' =
            IF ~ok THEN ListFail(list, call)
            ELSE IF list.variant = "inline"
            THEN IF scan.j = 0
                 THEN PushPart([c EXCEPT !.imageUrl = scan.imageUrl,
                                         !.detailsText = text],
                               PartRecord(c, scan.imageUrl, text))
                 ELSE [c EXCEPT !.j = scan.j, !.imageUrl = scan.imageUrl,
                                !.detailsText = text,
                                !.detailsFile = list.files[scan.j]]
            ELSE PushPart([c EXCEPT !.detailsText = text],
                          PartRecord(c, list.imageUrl, text))
  /\ UNCHANGED <<store, tokens, upl, del, deletedOK, writes>>

(***************************************************************************)
(* POST /api/upload (part_001).                                            *)
(***************************************************************************)
Upload(originalname, mimetype, buffer) ==
  [present |-> TRUE, originalname |-> originalname, mimetype |-> mimetype,
   buffer |-> buffer]

\* The multipart forms a client posts: [partName, file, details].
Form(partName, file, details) ==
  [partName |-> partName, file |-> file, details |-> details]

FilePng == Upload(NamePicPng, MimePng, "PNG")
FileNoType == Upload(NamePicPng, <<>>, "JPG")
TextFits == "Fits 2015-2018 sedans"

UploadForms ==
  {Form(<<>>, FilePng, TextFits),
   Form(NameBlank, NoUpload, ""),
   Form(NameAlt, FilePng, TextFits),
   Form(NameAlt, FileNoType, ""),
   Form(NameAlt, NoUpload, TextFits)}


\* The catch block of the upload handler.
UploadFail(u, call) ==
  [u EXCEPT !.calls = Append(u.calls, call), !.pc = "done", !.status = 500,
            !.error = "Upload failed"]

\* ensureAuth, which answers 401 before the body is parsed, then the partName
\* check of the handler.
UploadAdmit(partName, file, details) ==
  /\ LET r == [IdleUpload EXCEPT !.partName = partName, !.file = file,
                                 !.details = details]
     IN IF ~tokens
        THEN /\ upl' = [IdleUpload EXCEPT !.pc = "done", !.status = 401,
                                          !.error = "Not authenticated"]
             /\ UNCHANGED writes
        ELSE IF partName = <<>>
        THEN /\ upl' = [IdleUpload EXCEPT !.pc = "done", !.status = 400,
                                          !.error = "partName required"]
             /\ UNCHANGED writes
        ELSE /\ writes < MaxWrites
             /\ writes' = writes + 1
             /\ upl' = [r EXCEPT !.pc = "folder"]

\* A faulty UploadStart: the partName check is missing.
UploadStartNoCheck(partName, file, details) ==
  /\ NoRequest
  /\ IF ~tokens
     THEN /\ upl' = [IdleUpload EXCEPT !.pc = "done", !.status = 401,
                                       !.error = "Not authenticated"]
          /\ UNCHANGED writes
     ELSE /\ writes < MaxWrites
          /\ writes' = writes + 1
          /\ upl' = [IdleUpload EXCEPT !.partName = partName, !.file = file,
                                       !.details = details, !.pc = "folder"]
  /\ list' = IdleList
  /\ del' = IdleDelete
  /\ UNCHANGED <<store, tokens, deletedOK>>

\* An upload request of the one client.
UploadStart(partName, file, details) ==
  /\ NoRequest
  /\ UploadAdmit(partName, file, details)
  /\ list' = IdleList
  /\ del' = IdleDelete
  /\ UNCHANGED <<store, tokens, deletedOK>>

\* A faulty UploadNext: "else if (details)" instead of "if (details)".
UploadNextElse(u, after) ==
  IF after = "folder" /\ u.file.present THEN [u EXCEPT !.pc = "image"]
  ELSE IF after = "folder" /\ u.details # "" THEN [u EXCEPT !.pc = "details"]
  ELSE [u EXCEPT !.pc = "done", !.status = 200]

\* What follows a successful create: the next upload step, or res.json.
UploadNext(u, after) ==
  IF after = "folder" /\ u.file.present THEN [u EXCEPT !.pc = "image"]
  ELSE IF u.details # "" THEN [u EXCEPT !.pc = "details"]
  ELSE [u EXCEPT !.pc = "done", !.status = 200]

UploadCreateFolder ==
  /\ upl.pc = "folder"
  /\ \E ok \in BOOLEAN :
       LET call == Call("create", RootId)
           id == Len(store) + 1
       IN IF ok
          THEN /\ store' = DriveCreate(store, RootId, upl.partName,
                                       MimeFolder, "")
               /\ upl' = UploadNext([upl EXCEPT
                                       !.calls = Append(upl.calls, call),
                                       !.folderId = id], "folder")
          ELSE /\ upl' = UploadFail(upl, call)
               /\ UNCHANGED store
  /\ list' = Observe(list, store')
  /\ UNCHANGED <<tokens, del, deletedOK, writes>>

UploadImage ==
  /\ upl.pc = "image"
  /\ \E ok \in BOOLEAN :
       LET call == Call("create", upl.folderId)
           mimeType == IF upl.file.mimetype # <<>> THEN upl.file.mimetype
                       ELSE MimeJpeg
           id == Len(store) + 1
       IN IF ok
          THEN /\ store' = DriveCreate(store, upl.folderId,
                                       upl.file.originalname, mimeType,
                                       upl.file.buffer)
               /\ upl' = UploadNext([upl EXCEPT
                                       !.calls = Append(upl.calls, call),
                                       !.written = Append(upl.written, id)],
                                    "image")
          ELSE /\ upl' = UploadFail(upl, call)
               /\ UNCHANGED store
  /\ list' = Observe(list, store')
  /\ UNCHANGED <<tokens, del, deletedOK, writes>>

\* A faulty UploadDetails: a failed details upload trashes the new folder.
UploadDetailsRollback ==
  /\ upl.pc = "details"
  /\ \E ok \in BOOLEAN :
       LET call == Call("create", upl.folderId)
           id == Len(store) + 1
       IN IF ok
          THEN /\ store' = DriveCreate(store, upl.folderId, NameDetailsTxt,
                                       MimeText, upl.details)
               /\ upl' = [upl EXCEPT !.calls = Append(upl.calls, call),
                                     !.written = Append(upl.written, id),
                                     !.pc = "done", !.status = 200]
          ELSE /\ upl' = UploadFail(upl, call)
               /\ store' = DriveTrash(store, upl.folderId)
  /\ list' = Observe(list, store')
  /\ UNCHANGED <<tokens, del, deletedOK, writes>>

UploadDetails ==
  /\ upl.pc = "details"
  /\ \E ok \in BOOLEAN :
       LET call == Call("create", upl.folderId)
           id == Len(store) + 1
       IN IF ok
          THEN /\ store' = DriveCreate(store, upl.folderId, NameDetailsTxt,
                                       MimeText, upl.details)
               /\ upl' = [upl EXCEPT !.calls = Append(upl.calls, call),
                                     !.written = Append(upl.written, id),
                                     !.pc = "done", !.status = 200]
          ELSE /\ upl' = UploadFail(upl, call)
               /\ UNCHANGED store
  /\ list' = Observe(list, store')
  /\ UNCHANGED <<tokens, del, deletedOK, writes>>

(***************************************************************************)
(* POST /api/delete (part_001).                                            *)
(***************************************************************************)

\* ensureAuth, which answers 401 before the handler reads the body, then
\* the folderId check of the handler.
DeleteAdmit(folderId) ==
  /\ LET r == [IdleDelete EXCEPT !.folderId = folderId,
                                 !.delBefore = deletedOK]
     IN IF ~tokens
        THEN /\ del' = [IdleDelete EXCEPT !.pc = "done", !.status = 401,
                                          !.error = "Not authenticated"]
             /\ UNCHANGED writes
        ELSE IF folderId = NoId
        THEN /\ del' = [r EXCEPT !.pc = "done", !.status = 400,
                                 !.error = "folderId required"]
             /\ UNCHANGED writes
        ELSE /\ writes < MaxWrites
             /\ writes' = writes + 1
             /\ del' = [r EXCEPT !.pc = "update"]

\* A delete request of the one client.
DeleteStart(folderId) ==
  /\ NoRequest
  /\ DeleteAdmit(folderId)
  /\ list' = IdleList
  /\ UNCHANGED <<store, tokens, upl, deletedOK>>

\* files.update; an id the remote does not know is always rejected.
DeleteUpdate ==
  /\ del.pc = "update"
  /\ \E ok \in BOOLEAN :
       LET call == Call("update", del.folderId) IN
       IF ok /\ del.folderId \in Ids(store)
       THEN /\ store' = DriveTrash(store, del.folderId)
            /\ del' = [del EXCEPT !.calls = Append(del.calls, call),
                                  !.pc = "done", !.status = 200]
            /\ deletedOK' = deletedOK \cup {del.folderId}
       ELSE /\ del' = [del EXCEPT !.calls = Append(del.calls, call),
                                  !.pc = "done", !.status = 500,
                                  !.error = "Failed to delete"]
            /\ UNCHANGED <<store, deletedOK>>
  /\ list' = Observe(list, store')
  /\ UNCHANGED <<tokens, upl, writes>>

(***************************************************************************)
(* The session (part_001): /oauth2callback and /logout.                    *)
(***************************************************************************)
Codes == {"", "good", "bad"}

\* A faulty OAuthCallback: tokens are stored although the exchange failed.
OAuthCallbackAnyCode(code) ==
  /\ NoRequest
  /\ tokens' = IF code # "" THEN TRUE ELSE tokens
  /\ UNCHANGED <<store, list, upl, del, deletedOK, writes>>

\* A missing code answers 400; getToken rejects a bad code and the catch
\* answers 500; only a successful exchange stores tokens.
OAuthCallback(code) ==
  /\ NoRequest
  /\ tokens' = IF code = "good" THEN TRUE ELSE tokens
  /\ UNCHANGED <<store, list, upl, del, deletedOK, writes>>

Logout ==
  /\ NoRequest
  /\ tokens' = FALSE
  /\ UNCHANGED <<store, list, upl, del, deletedOK, writes>>

(***************************************************************************)
(* Initial remote content.  The root folder exists; part folders and their *)
(* children may have been put there before the server starts.              *)
(***************************************************************************)
Kind(name, mimeType, content, trashed) ==
  [name |-> name, mimeType |-> mimeType, content |-> content,
   trashed |-> trashed]

KindPic == Kind(NamePicPng, MimePng, "PNG", FALSE)
KindDetailsTxt == Kind(NameDetailsTxt, MimeText, "Fits 2015-2018 sedans", FALSE)

FileKinds ==
  {KindPic, KindDetailsTxt,
   Kind(NameDetailsPng, MimePng, "PNG2", FALSE),
   Kind(NameNotesTxt, MimeText, "notes", FALSE),
   Kind(NameMyDetails, MimePdf, "doc", FALSE),
   Kind(NameManualPdf, MimePdf, "manual", FALSE),
   Kind(NamePicPng, MimeJpeg, "JPG", TRUE),
   Kind(NameDetailsTxt, MimeText, "old", TRUE)}

ChildLists == UNION {[1..n -> FileKinds] : n \in 0..MaxChildren}

NameBrake == <<"B","r","a","k","e">>

\* A part folder under the root, followed by its children.
AddFolder(s, name, trashed, kids) ==
  LET fid == Len(s) + 1 IN
  Append(s, Entity(fid, RootId, name, MimeFolder, "", trashed))
    \o [k \in 1..Len(kids) |->
          Entity(fid + k, fid, kids[k].name, kids[k].mimeType,
                 kids[k].content, kids[k].trashed)]

ExtraShapes == {"empty", "trashed", "full"}

AddExtra(s, shape) ==
  CASE shape = "empty" -> AddFolder(s, NameBrake, FALSE, <<>>)
    [] shape = "trashed" -> AddFolder(s, NameBrake, TRUE, <<KindPic>>)
    [] shape = "full" -> AddFolder(s, NameBrake, FALSE,
                                   <<KindPic, KindDetailsTxt>>)

RECURSIVE AddExtras(_, _)
AddExtras(s, shapes) ==
  IF shapes = <<>> THEN s
  ELSE AddExtras(AddExtra(s, Head(shapes)), Tail(shapes))

ExtraLists == UNION {[1..n -> ExtraShapes] : n \in 0..MaxExtraFolders}

\* Content for the list handlers: one part folder with any children, then
\* further part folders.
ListStores ==
  {AddExtras(AddFolder(<<RootEntity>>, NameAlt, FALSE, kids), extras) :
     kids \in ChildLists, extras \in ExtraLists}

\* Content for the whole server: an entity that is not under the root, and
\* a root that is empty or holds one populated part folder.
Outside == Entity(2, NoId, NameManualPdf, MimePdf, "manual", FALSE)

ServerStores ==
  {<<RootEntity, Outside>>, AddExtra(<<RootEntity, Outside>>, "full")}

(***************************************************************************)
(* Specifications.                                                         *)
(***************************************************************************)
\* The server of part_001 on one remote store.
Init ==
  /\ store \in ServerStores
  /\ tokens = FALSE
  /\ list = IdleList
  /\ upl = IdleUpload
  /\ del = IdleDelete
  /\ deletedOK = {}
  /\ writes = 0

Next ==
  \/ ListStart("session")
  \/ ListEnumerate
  \/ ListChildren
  \/ ListGet
  \/ \E f \in UploadForms : UploadStart(f.partName, f.file, f.details)
  \/ UploadCreateFolder
  \/ UploadImage
  \/ UploadDetails
  \/ \E folderId \in Ids(store) \cup {NoId, Len(store) + 1} :
       DeleteStart(folderId)
  \/ DeleteUpdate
  \/ \E code \in Codes : OAuthCallback(code)
  \/ Logout

Spec == Init /\ [][Next]_vars

\* The list handlers alone, over every initial content.
InitList ==
  /\ store \in ListStores
  /\ tokens = TRUE
  /\ list = IdleList
  /\ upl = IdleUpload
  /\ del = IdleDelete
  /\ deletedOK = {}
  /\ writes = 0

NextList ==
  \/ \E v \in Variants : ListStart(v)
  \/ ListEnumerate
  \/ ListChildren
  \/ ListGet

SpecList == InitList /\ [][NextList]_vars

\* Requests of several clients of one authenticated session, interleaved at
\* their remote calls: a list request, an upload request and a delete request
\* may be in flight together, each remote call being one step.
ConcStores == {AddExtra(<<RootEntity>>, "full")}
ConcForms == {Form(NameAlt, FilePng, TextFits)}

ConcListStart ==
  /\ ListOver
  /\ list' = ListBegin("session")
  /\ UNCHANGED <<store, tokens, upl, del, deletedOK, writes>>

ConcUploadStart(partName, file, details) ==
  /\ UploadOver
  /\ UploadAdmit(partName, file, details)
  /\ UNCHANGED <<store, tokens, list, del, deletedOK>>

ConcDeleteStart(folderId) ==
  /\ DeleteOver
  /\ DeleteAdmit(folderId)
  /\ UNCHANGED <<store, tokens, list, upl, deletedOK>>

InitConc ==
  /\ store \in ConcStores
  /\ tokens = TRUE
  /\ list = IdleList
  /\ upl = IdleUpload
  /\ del = IdleDelete
  /\ deletedOK = {}
  /\ writes = 0

NextConc ==
  \/ ConcListStart
  \/ ListEnumerate
  \/ ListChildren
  \/ ListGet
  \/ \E f \in ConcForms : ConcUploadStart(f.partName, f.file, f.details)
  \/ UploadCreateFolder
  \/ UploadImage
  \/ UploadDetails
  \/ \E folderId \in Ids(store) : ConcDeleteStart(folderId)
  \/ DeleteUpdate

SpecConc == InitConc /\ [][NextConc]_vars

(***************************************************************************)
(* Properties.                                                             *)
(***************************************************************************)
IsImageFile(f) == StartsWith(f.mimeType, ImagePrefix)
IsDetailsNamed(f) == Includes(ToLowerCase(f.name), DetailsWord)
IsPlainText(f) == f.mimeType = MimeText

\* The non-trashed children of a folder, as the remote lists them now.
ListedChildren(id) == DriveList(store, id, FALSE, TRUE, ChildPageSize)
ImagesOf(files) == SelectSeq(files, IsImageFile)

FirstPlainText(files) ==
  CHOOSE k \in 1..Len(files) :
    IsPlainText(files[k]) /\ \A m \in 1..(k - 1) : ~IsPlainText(files[m])

SessionList == list.variant = "session"
ListAnswered(status) == list.pc = "done" /\ list.status = status

\* C1: in the session server's list, a record of a folder with two or more
\* listed image children references the id of the first of them.
C1_FirstImageWins ==
  SessionList =>
    \A k \in 1..Len(list.parts) :
      LET imgs == ImagesOf(ListedChildren(list.parts[k].id)) IN
      Len(imgs) >= 2 => list.parts[k].imageUrl = Url(UcBase, imgs[1].id)

\* The children just listed for the folder in hand, and the details
\* candidate chosen among them (session server).
CandidateChosen ==
  /\ SessionList
  /\ list.pc \in {"get", "children", "done"}
  /\ list.i >= 1
  /\ Len(list.calls) >= 2

\* C2 (as claimed): if some child is details-named the candidate is a
\* details-named child; otherwise it is the first text/plain child; otherwise
\* there is none.
C2_DetailsCandidate_Claimed ==
  SessionList =>
    LET files == list.files
        K == 1..Len(files)
    IN IF \E k \in K : IsDetailsNamed(files[k])
       THEN list.detailsFile # NoFile /\ IsDetailsNamed(list.detailsFile)
       ELSE IF \E k \in K : IsPlainText(files[k])
       THEN list.detailsFile = files[FirstPlainText(files)]
       ELSE list.detailsFile = NoFile

\* C2 (amended): the same rule over the children that are not image-typed;
\* an image-typed child is never the details candidate.
C2_DetailsCandidate ==
  SessionList =>
    LET files == SelectSeq(list.files, LAMBDA f : ~IsImageFile(f))
        K == 1..Len(files)
    IN /\ ~IsImageFile(list.detailsFile)
       /\ IF \E k \in K : IsDetailsNamed(files[k])
          THEN list.detailsFile # NoFile /\ IsDetailsNamed(list.detailsFile)
               /\ \E k \in 1..Len(list.files) : list.files[k] = list.detailsFile
          ELSE IF \E k \in K : IsPlainText(files[k])
          THEN list.detailsFile = files[FirstPlainText(files)]
          ELSE list.detailsFile = NoFile

\* C2 witness: a details-named text file chosen although a text/plain file
\* comes first, in a folder that also holds a details-named image.
C2_Witness ==
  /\ CandidateChosen
  /\ Len(list.files) >= 2
  /\ IsDetailsNamed(list.detailsFile)
  /\ \E k \in 1..Len(list.files) :
       IsImageFile(list.files[k]) /\ IsDetailsNamed(list.files[k])

\* C3: a successful list of the session server holds no record of a folder
\* whose delete request had succeeded before the list started.
C3_DeletedNeverListed ==
  (SessionList /\ ListAnswered(200)) =>
    \A k \in 1..Len(list.body) : list.body[k].id \notin list.delBefore

\* C3 witness: a part folder was deleted, and a later list returns another.
C3_Witness ==
  /\ SessionList /\ ListAnswered(200)
  /\ Len(list.body) >= 1
  /\ \E id \in list.delBefore :
       /\ EntityOf(store, id).parent = RootId
       /\ EntityOf(store, id).mimeType = MimeFolder

\* C4: an authenticated upload with an empty partName is answered 400, makes
\* no remote call and leaves the remote store unchanged.
C4_EmptyNameNoWrite ==
  [][\A f \in UploadForms :
       (tokens /\ f.partName = <<>>
          /\ UploadStart(f.partName, f.file, f.details))
       => /\ upl'.pc = "done" /\ upl'.status = 400
          /\ upl'.calls = <<>>
          /\ store' = store]_vars

\* C4 witness: such a request has been answered.
C4_Witness ==
  tokens /\ upl.pc = "done" /\ upl.status = 400 /\ upl.calls = <<>>

Whitespace == {" ", "\t", "\n"}
IsBlank(s) == \A k \in 1..Len(s) : s[k] \in Whitespace

\* C5: a blank name (empty or only whitespace) is rejected, and no folder with
\* a blank name is ever created.
C5_BlankNameRejected ==
  /\ (upl.pc # "idle" /\ IsBlank(upl.partName)) =>
       (upl.pc = "done" /\ upl.status \in {400, 401})
  /\ \A k \in 1..Len(store) :
       store[k].mimeType = MimeFolder => ~IsBlank(store[k].name)

\* C6: while the session holds no tokens, no step changes the remote store,
\* and a request that is made is answered 401 without any remote call.
C6_UnauthenticatedNoCall ==
  [][~tokens =>
       /\ store' = store
       /\ (list' # list =>
             \/ list' = IdleList
             \/ (list'.pc = "done" /\ list'.status = 401 /\ list'.calls = <<>>))
       /\ (upl' # upl =>
             upl'.pc = "done" /\ upl'.status = 401 /\ upl'.calls = <<>>)
       /\ (del' # del =>
             \/ del' = IdleDelete
             \/ (del'.pc = "done" /\ del'.status = 401 /\ del'.calls = <<>>))]_vars

\* C6 witness: list and upload requests answered 401 after a logout, with
\* content in the remote store.
C6_Witness ==
  /\ ~tokens
  /\ list.pc = "done" /\ list.status = 401
  /\ upl.pc = "done" /\ upl.status = 401
  /\ writes >= 1

ChildIds(id) == {store[k].id : k \in {m \in 1..Len(store) : store[m].parent = id}}
Range(s) == {s[k] : k \in 1..Len(s)}
IsPartFolder(e) == e.parent = RootId /\ e.mimeType = MimeFolder

\* C7: an upload that failed after its folder was created answered 500 having
\* made create calls only (the folder, the children written, the rejected
\* one); the folder is under the root with exactly the children written, its
\* trashed flag is set only by a successful delete request naming it, and a
\* list answered afterwards holds its record unless it is in the trash.
C7_NoCompensation ==
  (upl.pc = "done" /\ upl.status = 500 /\ upl.folderId # NoId) =>
    /\ \A k \in 1..Len(upl.calls) : upl.calls[k][1] = "create"
    /\ Len(upl.calls) = Len(upl.written) + 2
    /\ upl.folderId \in Ids(store)
    /\ IsPartFolder(EntityOf(store, upl.folderId))
    /\ ChildIds(upl.folderId) = Range(upl.written)
    /\ (EntityOf(store, upl.folderId).trashed => upl.folderId \in deletedOK)
    /\ (SessionList /\ ListAnswered(200) /\ ~IsTrashed(store, upl.folderId)
          => \E k \in 1..Len(list.body) : list.body[k].id = upl.folderId)

\* C7 witness: the image was written, the details upload failed, and the
\* next list shows the folder with an image and no details.
C7_Witness ==
  /\ upl.pc = "done" /\ upl.status = 500 /\ Len(upl.written) = 1
  /\ upl.details # ""
  /\ SessionList /\ ListAnswered(200)
  /\ \E k \in 1..Len(list.body) :
       /\ list.body[k].id = upl.folderId
       /\ list.body[k].imageUrl = Url(UcBase, upl.written[1])
       /\ list.body[k].details = ""

\* The root holds exactly the folder of the last upload, and no delete
\* request has succeeded.
OnlyUploadedFolder ==
  /\ deletedOK = {}
  /\ {store[k].id : k \in {m \in 1..Len(store) : IsPartFolder(store[m])}}
       = {upl.folderId}

\* C8: after a successful upload (name, image/png file, details text) into a
\* root without part folders, the next successful list is exactly the one
\* record of that part: its name, the URL of the uploaded image, its details.
C8_UploadThenList ==
  ( /\ upl.pc = "done" /\ upl.status = 200
    /\ upl.file.present /\ upl.file.mimetype = MimePng /\ upl.details # ""
    /\ OnlyUploadedFolder
    /\ SessionList /\ ListAnswered(200) )
  => list.body = << [id |-> upl.folderId, name |-> upl.partName,
                     imageUrl |-> Url(UcBase, upl.written[1]),
                     details |-> upl.details] >>

C8_Witness ==
  /\ upl.pc = "done" /\ upl.status = 200
  /\ upl.partName = NameAlt
  /\ upl.file.present /\ upl.file.mimetype = MimePng /\ upl.details = TextFits
  /\ OnlyUploadedFolder
  /\ SessionList /\ ListAnswered(200)
  /\ Len(list.body) = 1

\* The non-trashed folders under the root, in remote listing order.
PartFoldersListed ==
  SelectSeq(store, LAMBDA e : IsPartFolder(e) /\ ~IsTrashed(store, e.id))

\* C9: a successful list of the session server holds one record per listed
\* folder, in listing order, with that folder's id and name; imageUrl is
\* non-null exactly when a listed child is image-typed, and a folder without
\* children gives imageUrl = null and details = "".
C9_OneRecordPerFolder ==
  (SessionList /\ ListAnswered(200)) =>
    /\ Len(list.body) = Len(PartFoldersListed)
    /\ \A k \in 1..Len(list.body) :
         LET files == ListedChildren(PartFoldersListed[k].id) IN
         /\ list.body[k].id = PartFoldersListed[k].id
         /\ list.body[k].name = PartFoldersListed[k].name
         /\ (list.body[k].imageUrl # NullUrl
               <=> \E m \in 1..Len(files) : IsImageFile(files[m]))
         /\ (files = <<>> =>
               list.body[k].imageUrl = NullUrl /\ list.body[k].details = "")

\* C9 witness: several folders, one with an image, one without children.
C9_Witness ==
  /\ SessionList /\ ListAnswered(200)
  /\ Len(list.body) >= 3
  /\ \E k \in 1..Len(list.body) : list.body[k].imageUrl # NullUrl
  /\ \E k \in 1..Len(list.body) :
       ListedChildren(list.body[k].id) = <<>>

CatchingList == list.variant \in {"session", "find"}

\* C10 (as claimed): the list fails as a whole only when the call that was
\* rejected is the enumeration of the root.
C10_OnlyRootFailureFails_Claimed ==
  (CatchingList /\ list.pc = "done" /\ list.failed # <<>>) =>
    (list.status = 500 <=> list.failed = Call("list", RootId))

\* C10 (amended): the list fails as a whole exactly when some remote call was
\* rejected, whichever it is; the rejected call is the last one made.
C10_AnyFailureFailsAll ==
  (CatchingList /\ list.pc = "done" /\ list.status # 401) =>
    /\ list.status = 500 <=> list.failed # <<>>
    /\ list.status = 200 <=> list.failed = <<>>
    /\ list.failed # <<>> => list.calls[Len(list.calls)] = list.failed

\* C10 witness: a details fetch is rejected after a folder was processed.
C10_Witness ==
  /\ CatchingList /\ ListAnswered(500)
  /\ list.failed # <<>> /\ list.failed[1] = "get"
  /\ Len(list.parts) >= 1

\* C11: the remote update of a delete request changes nothing but the
\* trashed flag of the entity it names, and a delete request for an id whose
\* delete has already succeeded leaves the remote store as it is, whether it
\* is answered 200 or 500.
C11_DeleteIdempotent ==
  [][del.pc = "update" =>
       /\ Len(store') = Len(store)
       /\ \A k \in 1..Len(store) :
            \/ store'[k] = store[k]
            \/ /\ store[k].id = del.folderId
               /\ store'[k] = [store[k] EXCEPT !.trashed = TRUE]
       /\ (del.folderId \in del.delBefore =>
             store' = store /\ del'.status \in {200, 500}
               /\ IsTrashed(store', del.folderId))]_vars

\* C11 witness: the second delete of a part folder has been answered 200.
C11_Witness ==
  /\ del.pc = "done" /\ del.status = 200
  /\ del.folderId \in del.delBefore
  /\ IsPartFolder(EntityOf(store, del.folderId))

\* C12: logout leaves the session without tokens; only a callback whose code
\* is exchanged stores tokens; and while there are no tokens every list,
\* upload and delete request is answered 401.
C12_LogoutUntilCallback ==
  [][/\ (Logout => ~tokens')
     /\ (\A code \in Codes \ {"good"} : OAuthCallback(code) => tokens' = tokens)
     /\ ((~tokens /\ tokens') => OAuthCallback("good"))
     /\ (~tokens =>
           /\ (list' # list /\ list' # IdleList => list'.status = 401)
           /\ (upl' # upl => upl'.status = 401)
           /\ (del' # del /\ del' # IdleDelete => del'.status = 401))]_vars

\* C12 witness: a delete request answered 401 in a session that had been
\* authenticated (it had written) and was logged out.
C12_Witness ==
  /\ ~tokens
  /\ del.pc = "done" /\ del.status = 401
  /\ writes >= 1

\* C13: in the session server, a rejected remote call of the list, whichever
\* it is, is answered by one 500 with an error text and without any record.
C13_StrictNoPartial ==
  (SessionList /\ list.failed # <<>>) =>
    /\ list.pc = "done" /\ list.status = 500
    /\ list.error # ""
    /\ list.body = <<>>

\* C13 witness: a child enumeration is rejected after folders were processed.
C13_Witness ==
  /\ SessionList /\ ListAnswered(500)
  /\ list.failed # <<>> /\ list.failed[1] = "list"
  /\ list.failed[2] # RootId
  /\ Len(list.parts) >= 1

\* The content fetches a list request has issued for the children of a folder.
FetchesOf(fid) ==
  {k \in 1..Len(list.calls) :
     /\ list.calls[k][1] = "get"
     /\ EntityOf(store, list.calls[k][2]).parent = fid}

\* Whether a child may be a details candidate under the rule of any variant.
MayBeDetails(f) ==
  IsDetailsNamed(f) \/ IsPlainText(f) \/ EndsWith(f.name, TxtSuffix)

\* C14: in every variant a list request fetches content at most once per
\* folder, and not at all for a folder none of whose listed children can be a
\* details candidate; the details of such a folder are the empty string.
C14_AtMostOneFetch ==
  \A k \in 1..Len(list.folders) :
    LET fid == list.folders[k].id
        children == DriveList(store, fid, FALSE,
                              NotTrashedFilter(list.variant),
                              ChildPage(list.variant))
    IN /\ Cardinality(FetchesOf(fid)) <= 1
       /\ (\A c \in 1..Len(children) : ~MayBeDetails(children[c])) =>
            /\ FetchesOf(fid) = {}
            /\ (k <= Len(list.parts) => list.parts[k].details = "")

\* C15: in every variant neither enumeration yields a trashed entity: no
\* enumerated folder and no listed child is trashed, and neither is the
\* file whose content is fetched.
C15_TrashedExcluded ==
  /\ \A k \in 1..Len(list.folders) : ~IsTrashed(store, list.folders[k].id)
  /\ \A k \in 1..Len(list.files) : ~IsTrashed(store, list.files[k].id)
  /\ \A k \in 1..Len(list.calls) :
       list.calls[k][2] # RootId => ~IsTrashed(store, list.calls[k][2])

\* C16: in every variant a request whose remote call is rejected is answered,
\* with one of the statuses 200, 400, 401 and 500: no request is left with an
\* unhandled rejection.
C16_AlwaysAnswered ==
  /\ list.pc # "rejected"
  /\ (list.failed # <<>> => list.pc = "done" /\ list.status = 500)
  /\ (list.pc = "done" => list.status \in {200, 401, 500})
  /\ (upl.pc = "done" => upl.status \in {200, 400, 401, 500})
  /\ (del.pc = "done" => del.status \in {200, 400, 401, 500})

\* C18: a delete request has its remote update carried out only for a part
\* folder (a folder directly under the root), so every entity whose trashed
\* flag is set is a part folder: never the root, a child file or an entity
\* outside the root.
C18_OnlyPartFoldersTrashed ==
  /\ (del.calls # <<>> /\ del.status = 200) =>
       /\ del.folderId \in Ids(store)
       /\ IsPartFolder(EntityOf(store, del.folderId))
  /\ \A k \in 1..Len(store) : store[k].trashed => IsPartFolder(store[k])

\* The records an uninterrupted listParts of the session server computes for
\* folder f from the content s (the body of a candidate that is not
\* text/plain may or may not arrive as a string).
RecordsOf(s, f) ==
  LET files == DriveList(s, f.id, FALSE, TRUE, ChildPageSize)
      cls == Classify(files, NoFile, NoFile)
      imageUrl == IF cls.imageFile # NoFile
                  THEN Url(UcBase, cls.imageFile.id) ELSE NullUrl
      texts == IF cls.detailsFile = NoFile THEN {""}
               ELSE {DetailsText(DriveGetData(s, cls.detailsFile.id, b)) :
                       b \in BOOLEAN}
  IN {[id |-> f.id, name |-> f.name, imageUrl |-> imageUrl, details |-> d] :
        d \in texts}

FoldersOf(s) == DriveList(s, RootId, TRUE, TRUE, FolderPageSize)

\* Whether the body of the list is a list that an uninterrupted listParts
\* computes from the content s.
IsListOf(body, s) ==
  /\ Len(body) = Len(FoldersOf(s))
  /\ \A k \in 1..Len(body) : body[k] \in RecordsOf(s, FoldersOf(s)[k])

\* C17 as claimed: a list answered 200 while uploads and deletes of other
\* requests were interleaved with it is the list of one content the remote
\* store had between the start and the end of the call; and when an upload
\* has ended with its image and its details written and in place, no list
\* holds a record of its folder with imageUrl null or details empty.
C17_SingleInstant_Claimed ==
  (SessionList /\ ListAnswered(200)) =>
    /\ \E s \in list.snaps : IsListOf(list.body, s)
    /\ (/\ upl.pc = "done" /\ upl.status = 200 /\ Len(upl.written) = 2
        /\ \A id \in Range(upl.written) \cup {upl.folderId} :
             ~IsTrashed(store, id)) =>
         \A k \in 1..Len(list.body) :
           list.body[k].id = upl.folderId =>
             /\ list.body[k].imageUrl # NullUrl
             /\ list.body[k].details # ""

\* C17: the folders of a list answered 200 are, in order, the folders under
\* the root in one content the remote store had during the call, and each
\* record is the record of its folder in one content the remote store had
\* during the call; the contents may differ from record to record.
C17_InstantPerCall ==
  (SessionList /\ ListAnswered(200)) =>
    /\ \E s \in list.snaps :
         /\ Len(list.body) = Len(FoldersOf(s))
         /\ \A k \in 1..Len(list.body) :
              /\ list.body[k].id = FoldersOf(s)[k].id
              /\ list.body[k].name = FoldersOf(s)[k].name
    /\ \A k \in 1..Len(list.body) :
         \E s \in list.snaps :
           list.body[k] \in
             RecordsOf(s, [id |-> list.body[k].id, name |-> list.body[k].name])

\* C17 witness: a list answered 200 that is the list of none of the contents
\* the remote store had during the call.
C17_Witness ==
  /\ SessionList /\ ListAnswered(200)
  /\ Cardinality(list.snaps) >= 2
  /\ \A s \in list.snaps : ~IsListOf(list.body, s)

====
